---- MODULE Spec2Model ----
(***************************************************************************)
(* Digital Friend bot: the JSON record store (memory_manager) and the text *)
(* handler of index.js with its [UPDATE: {...}] / [REMIND: {...}]          *)
(* directives.                                                             *)
(*                                                                         *)
(* Abstractions.  A file's bytes are either the serialization of a record  *)
(* or torn bytes that JSON.parse rejects.  A generated text is a sequence  *)
(* of tokens: words, blanks and directive tags; a tag is one token, so     *)
(* String.replace(tag, '') removes the first token equal to the tag and    *)
(* trim() drops leading and trailing blanks.  Date.now() stamps are left   *)
(* out of the records.  fs.writeFileSync fails when the environment says   *)
(* so (fault); reads of existing files and fs.renameSync succeed.  Time is *)
(* counted in whole minutes; a delay of 1 ms is a delay of 0 minutes.      *)
(***************************************************************************)
EXTENDS Integers, Sequences, FiniteSets, Bags, TLC

\* ------------------------------------------------------------- bounds
MaxTurns == 2
MaxLen == 2
MaxAppends == 3
MaxCap == 2
MaxBoots == 1

\* ------------------------------------------------- program constants
HistoryLimit == 15
GroupLimit == 50

Users == {1, 2}
Groups == {1}
Turns == 1..MaxTurns

\* ---------------------------------------------------------- the files
NoFile == [kind |-> "none"]
Torn(n) == [kind |-> "torn", tag |-> n]

\* JSON.stringify(data, null, 2): the serialized record.
Stringify(data) == [kind |-> "json", val |-> data]

\* JSON.parse throws on torn bytes and yields the record otherwise.
ParseOk(bytes) == bytes.kind = "json"
Parse(bytes) == bytes.val

\* ------------------------------------------------------------- facts
Keys == {"name", "mood"}
Values == {"Alex", "Sam", "happy"}
NoVal == "<absent>"
EmptyFacts == [k \in Keys |-> NoVal]
FactKeys(f) == {k \in Keys : f[k] # NoVal}

\* A merge in which the keys already known win.
SpreadMergeLeftWins(facts, updates) ==
    [k \in Keys |-> IF facts[k] # NoVal THEN facts[k] ELSE updates[k]]

\* { ...memory.facts, ...updates }: the right operand's keys win.
SpreadMerge(facts, updates) ==
    [k \in Keys |-> IF updates[k] # NoVal THEN updates[k] ELSE facts[k]]

\* ----------------------------------------------------------- usernames
NoName == "<null>"
Usernames == {"Alex", "alex", "Sam"}

\* String.prototype.toLowerCase on the names of the model.
ToLowerCase(s) ==
    CASE s = "Alex" -> "alex"
      [] s = "@Alex" -> "@alex"
      [] s = "Sam" -> "sam"
      [] s = "@Sam" -> "@sam"
      [] OTHER -> s

\* username.replace('@', ''): the first '@' is dropped.
StripAt(s) ==
    CASE s = "@Alex" -> "Alex"
      [] s = "@alex" -> "alex"
      [] s = "@Sam" -> "Sam"
      [] s = "@sam" -> "sam"
      [] OTHER -> s

\* ------------------------------------------------------------ records
DefaultMemory(userId) ==
    [id |-> userId, username |-> NoName, language |-> "ru",
     facts |-> EmptyFacts, history |-> <<>>]

DefaultGroup(chatId) ==
    [id |-> chatId, title |-> "Unknown Group", members_count |-> 0,
     recent_messages |-> <<>>]

\* Array.prototype.slice(start) for any integer start.
Slice(arr, start) ==
    LET n == Len(arr)
        from == IF start < 0 THEN (IF n + start < 0 THEN 0 ELSE n + start)
                ELSE (IF start > n THEN n ELSE start)
    IN  SubSeq(arr, from + 1, n)

\* --------------------------------------------------------------- state
VARIABLES
    disk,       \* the files of users_data and groups_data
    found,      \* console.error of a load: <<kind, id, bytes>> it could not parse
    ret,        \* the value the last memory_manager call returned
    op,         \* the call or handler step just performed
    turns,      \* the invocations of the text handler, with their locals
    running,    \* the turn whose synchronous section is executing, or 0
    timers,     \* setTimeout callbacks not yet fired, a bag
    delivered,  \* setTimeout callbacks fired, a bag
    cap,        \* the capacity the rolling-buffer runs are made with
    appended,   \* what those runs appended, per buffer, in order
    now,        \* the clock, in minutes
    boots,      \* how many times the process was restarted
    fault,      \* how fs.writeFileSync fails at present: none, open, write
    msg,        \* the message the text handler was invoked with in this step
    uncaught    \* the calls and handlers an exception escaped from

vars == <<disk, found, ret, op, turns, running, timers, delivered, cap, appended,
          now, boots, fault, msg, uncaught>>

\* ------------------------------------------------------ memory_manager
\* A disk d is [users, bak, groups]: users_data/<id>.json,
\* users_data/<id>.json.bak and groups_data/<id>.json.
EmptyDisk ==
    [users |-> [u \in Users |-> NoFile],
     bak |-> [u \in Users |-> NoFile],
     groups |-> [g \in Groups |-> NoFile]]

\* A load that skips the rename of an unparseable file.
loadUserMemoryNoBackup(d, userId) ==
    IF d.users[userId] # NoFile /\ ParseOk(d.users[userId])
    THEN [ret |-> Parse(d.users[userId]), disk |-> d, errs |-> {}]
    ELSE [ret |-> DefaultMemory(userId), disk |-> d,
          errs |-> IF d.users[userId] = NoFile THEN {}
                   ELSE {<<"user", userId, d.users[userId]>>}]

\* A load that persists the default it returns.
loadUserMemoryCreates(d, userId) ==
    IF d.users[userId] # NoFile /\ ParseOk(d.users[userId])
    THEN [ret |-> Parse(d.users[userId]), disk |-> d, errs |-> {}]
    ELSE [ret |-> DefaultMemory(userId),
          disk |-> [d EXCEPT !.users[userId] = Stringify(DefaultMemory(userId)),
                             !.bak[userId] = IF d.users[userId] = NoFile THEN @
                                             ELSE d.users[userId]],
          errs |-> IF d.users[userId] = NoFile THEN {}
                   ELSE {<<"user", userId, d.users[userId]>>}]

\* existsSync; readFileSync + JSON.parse; on a throw console.error and
\* renameSync(file, file + '.bak'); then the default structure.
loadUserMemory(d, userId) ==
    IF d.users[userId] = NoFile
    THEN [ret |-> DefaultMemory(userId), disk |-> d, errs |-> {}]
    ELSE IF ParseOk(d.users[userId])
    THEN [ret |-> Parse(d.users[userId]), disk |-> d, errs |-> {}]
    ELSE [ret |-> DefaultMemory(userId),
          disk |-> [d EXCEPT !.bak[userId] = d.users[userId],
                             !.users[userId] = NoFile],
          errs |-> {<<"user", userId, d.users[userId]>>}]

\* fs.writeFileSync(file, bytes) on a file holding `old`.  With no fault the
\* file holds the bytes.  A fault at open (EACCES) throws and leaves the
\* file as it was; a fault while writing (ENOSPC) throws after the file was
\* truncated, which leaves bytes JSON.parse rejects.
Truncated == Torn(0)
writeFileSync(old, bytes) ==
    CASE fault = "none" -> [file |-> bytes, threw |-> FALSE]
      [] fault = "open" -> [file |-> old, threw |-> TRUE]
      [] fault = "write" -> [file |-> Truncated, threw |-> TRUE]

\* A save that keeps the facts already in the file.
saveUserMemoryMerging(d, userId, data) ==
    LET merged == IF d.users[userId] # NoFile /\ ParseOk(d.users[userId])
                  THEN [data EXCEPT !.facts =
                           SpreadMerge(Parse(d.users[userId]).facts, data.facts)]
                  ELSE data
        w == writeFileSync(d.users[userId], Stringify(merged))
    IN  [disk |-> [d EXCEPT !.users[userId] = w.file], threw |-> FALSE,
         logged |-> w.threw]

\* A save that writes the file of user 1, whoever the record belongs to.
saveUserMemoryShared(d, userId, data) ==
    LET w == writeFileSync(d.users[1], Stringify(data))
    IN  [disk |-> [d EXCEPT !.users[1] = w.file], threw |-> FALSE,
         logged |-> w.threw]

\* A save with no try around the write.
saveUserMemoryUncaught(d, userId, data) ==
    LET w == writeFileSync(d.users[userId], Stringify(data))
    IN  [disk |-> [d EXCEPT !.users[userId] = w.file], threw |-> w.threw,
         logged |-> FALSE]

\* try { writeFileSync(file, JSON.stringify(data)) } catch { console.error }:
\* the whole record, overwriting; a failure is logged and nothing is thrown
\* to the caller.
saveUserMemory(d, userId, data) ==
    LET w == writeFileSync(d.users[userId], Stringify(data))
    IN  [disk |-> [d EXCEPT !.users[userId] = w.file], threw |-> FALSE,
         logged |-> w.threw]

\* { ...memory, ...updates } over records as functions of field names.
SpreadFields(memory, updates) ==
    [f \in (DOMAIN memory) \cup (DOMAIN updates) |->
        IF f \in DOMAIN updates THEN updates[f] ELSE memory[f]]

updateMemory(d, userId, updates) ==
    LET l == loadUserMemory(d, userId)
        updatedMemory == SpreadFields(l.ret, updates)
        s == saveUserMemory(l.disk, userId, updatedMemory)
    IN  [ret |-> updatedMemory, disk |-> s.disk, errs |-> l.errs, threw |-> s.threw,
         logged |-> s.logged]

\* A push that never cuts.
PushAndCutNoCut(seq, item, limit) == Append(seq, item)

\* push, then: if (length > limit) history = history.slice(-limit).
PushAndCut(seq, item, limit) ==
    LET pushed == Append(seq, item)
    IN  IF Len(pushed) > limit THEN Slice(pushed, 0 - limit) ELSE pushed

addToHistory(d, userId, message, limit) ==
    LET l == loadUserMemory(d, userId)
        memory == [l.ret EXCEPT !.history = PushAndCut(@, message, limit)]
        s == saveUserMemory(l.disk, userId, memory)
    IN  [disk |-> s.disk, errs |-> l.errs, threw |-> s.threw, logged |-> s.logged]

\* The scan of users_data: only names ending in .json, unparseable files
\* skipped; the first match in readdirSync order, which the model leaves
\* open, so the result is any of the matches, or null.
Null == [null |-> TRUE]

\* fs.readdirSync(DATA_DIR): the files of users_data, <id>.json and
\* <id>.json.bak.
UserFiles(d) ==
    {[id |-> u, ext |-> "json", bytes |-> d.users[u]] :
        u \in {v \in Users : d.users[v] # NoFile}}
    \cup {[id |-> u, ext |-> "json.bak", bytes |-> d.bak[u]] :
             u \in {v \in Users : d.bak[v] # NoFile}}

\* A scan that compares the names as they are written.
findUserByUsernameExact(d, username) ==
    LET matches == {Parse(f.bytes) : f \in
                      {g \in UserFiles(d) : /\ g.ext = "json"
                                            /\ ParseOk(g.bytes)
                                            /\ Parse(g.bytes).username = StripAt(username)}}
    IN  IF matches = {} THEN {Null} ELSE matches

findUserByUsername(d, username) ==
    LET cleanUsername == ToLowerCase(StripAt(username))
        matches == {Parse(f.bytes) : f \in
                      {g \in UserFiles(d) : /\ g.ext = "json"
                                            /\ ParseOk(g.bytes)
                                            /\ Parse(g.bytes).username # NoName
                                            /\ ToLowerCase(Parse(g.bytes).username)
                                                   = cleanUsername}}
    IN  IF matches = {} THEN {Null} ELSE matches

\* loadGroupData logs a parse failure and renames nothing.
loadGroupData(d, chatId) ==
    IF d.groups[chatId] # NoFile /\ ParseOk(d.groups[chatId])
    THEN [ret |-> Parse(d.groups[chatId]), disk |-> d, errs |-> {}]
    ELSE [ret |-> DefaultGroup(chatId), disk |-> d,
          errs |-> IF d.groups[chatId] = NoFile THEN {}
                   ELSE {<<"group", chatId, d.groups[chatId]>>}]

saveGroupData(d, chatId, data) ==
    LET w == writeFileSync(d.groups[chatId], Stringify(data))
    IN  [disk |-> [d EXCEPT !.groups[chatId] = w.file], threw |-> FALSE,
         logged |-> w.threw]

addGroupMessage(d, chatId, message, limit) ==
    LET l == loadGroupData(d, chatId)
        data == [l.ret EXCEPT !.recent_messages = PushAndCut(@, message, limit)]
        s == saveGroupData(l.disk, chatId, data)
    IN  [disk |-> s.disk, errs |-> l.errs, threw |-> s.threw, logged |-> s.logged]

\* What is persisted for an id, for the properties below.
UserRecordOf(d, u) ==
    IF d.users[u] # NoFile /\ ParseOk(d.users[u]) THEN Parse(d.users[u]) ELSE Null
GroupRecordOf(d, g) ==
    IF d.groups[g] # NoFile /\ ParseOk(d.groups[g]) THEN Parse(d.groups[g]) ELSE Null
HistoryOf(d, u) ==
    IF UserRecordOf(d, u) = Null THEN <<>> ELSE UserRecordOf(d, u).history
MessagesOf(d, g) ==
    IF GroupRecordOf(d, g) = Null THEN <<>> ELSE GroupRecordOf(d, g).recent_messages

\* ------------------------------------------------------ generated text
Word(w) == [t |-> "word", ok |-> TRUE, payload |-> [w |-> w]]
Blank == [t |-> "blank", ok |-> TRUE, payload |-> [w |-> " "]]
\* [UPDATE: {...}] whose payload JSON.parse accepts, and one it rejects.
UpdateTag(updates) == [t |-> "UPDATE", ok |-> TRUE, payload |-> updates]
BadUpdateTag == [t |-> "UPDATE", ok |-> FALSE, payload |-> [w |-> "bad json"]]
\* [REMIND: {...}] likewise.
RemindTag(remindData) == [t |-> "REMIND", ok |-> TRUE, payload |-> remindData]
BadRemindTag == [t |-> "REMIND", ok |-> FALSE, payload |-> [w |-> "bad json"]]

Absent == [kind |-> "absent"]
Num(n) == [kind |-> "num", n |-> n]
Str(x) == [kind |-> "str", s |-> x]

UpdatePayloads ==
    {[name |-> "Alex", mood |-> NoVal], [name |-> "Sam", mood |-> NoVal],
     [name |-> NoVal, mood |-> "happy"]}
RemindPayloads ==
    {[minutes |-> Num(5), text |-> Str("Stretch!")]}

Tokens ==
    {Word("ok"), Blank, BadUpdateTag, BadRemindTag}
        \cup {UpdateTag(p) : p \in UpdatePayloads}
        \cup {RemindTag(p) : p \in RemindPayloads}

\* The texts of at most n tokens.
Texts(alphabet, n) == UNION {[1..k -> alphabet] : k \in 0..n}

\* generateResponse's catch: the fixed text returned on an API error.
FallbackText == <<Word("api error")>>
ApiError == <<[t |-> "error", ok |-> FALSE, payload |-> [w |-> "throw"]]>>

\* A generateResponse with no catch: the error reaches the handler.
generateResponseUncaught(completion) == completion

\* try { return completion...content } catch { return the fixed text }
generateResponse(completion) ==
    IF completion = ApiError THEN FallbackText ELSE completion

\* String.prototype.trim over tokens.
RECURSIVE TrimLeft(_)
TrimLeft(s) ==
    IF s # <<>> /\ Head(s) = Blank THEN TrimLeft(Tail(s)) ELSE s
RECURSIVE TrimRight(_)
TrimRight(s) ==
    IF s # <<>> /\ s[Len(s)] = Blank THEN TrimRight(SubSeq(s, 1, Len(s) - 1)) ELSE s
Trim(s) == TrimRight(TrimLeft(s))

\* String.prototype.replace(tag, ''): the first occurrence goes.
RECURSIVE RemoveFirst(_, _)
RemoveFirst(s, tag) ==
    IF s = <<>> THEN s
    ELSE IF Head(s) = tag THEN Tail(s)
    ELSE <<Head(s)>> \o RemoveFirst(Tail(s), tag)

\* One [UPDATE] match, the body of the while loop: parse, merge, strip.
\* A throw of JSON.parse skips the merge and the strip.
UpdateStep(st, tag) ==
    IF tag.ok
    THEN [facts |-> SpreadMerge(st.facts, tag.payload),
          clean |-> Trim(RemoveFirst(st.clean, tag))]
    ELSE st

\* A loop that a throw of JSON.parse ends.
RECURSIVE ParseUpdatesAborting(_, _, _)
ParseUpdatesAborting(st, raw, i) ==
    IF i > Len(raw) THEN st
    ELSE IF raw[i].t = "UPDATE"
    THEN (IF raw[i].ok THEN ParseUpdatesAborting(UpdateStep(st, raw[i]), raw, i + 1)
          ELSE st)
    ELSE ParseUpdatesAborting(st, raw, i + 1)

\* updateRegex.exec over rawResponse, match by match from index i.
RECURSIVE ParseUpdates(_, _, _)
ParseUpdates(st, raw, i) ==
    IF i > Len(raw) THEN st
    ELSE IF raw[i].t = "UPDATE" THEN ParseUpdates(UpdateStep(st, raw[i]), raw, i + 1)
    ELSE ParseUpdates(st, raw, i + 1)

\* remindData.minutes || 1 and remindData.text || the fixed Russian
\* placeholder ("Reminder!").
DefaultReminderText == Str("Reminder!")
ReminderMinutes(remindData) ==
    IF remindData.minutes \in {Absent, Num(0), Str("")}
    THEN Num(1) ELSE remindData.minutes
ReminderText(remindData) ==
    IF remindData.text = Absent \/ remindData.text = Str("")
    THEN DefaultReminderText ELSE remindData.text

\* Node's TIMEOUT_MAX is 2^31 - 1 ms: the whole minutes that fit in it.
TimeoutMaxMinutes == 2147483647 \div (60 * 1000)

\* setTimeout(callback, minutes * 60 * 1000).  The product is NaN when
\* minutes is a text that is no number; Node replaces a delay that is NaN,
\* below 1 ms or above TIMEOUT_MAX by 1 ms.  The result is in whole minutes.
SetTimeoutAfter(minutes) ==
    IF minutes.kind = "num" /\ minutes.n >= 1 /\ minutes.n <= TimeoutMaxMinutes
    THEN minutes.n ELSE 0

\* A scheduled callback: whom ctx.reply answers, the minutes asked for, the
\* text, the delay the timer got, and when and in which run of the process
\* it was scheduled.
Timer(to, remindData) ==
    [to |-> to, minutes |-> ReminderMinutes(remindData),
     text |-> ReminderText(remindData),
     after |-> SetTimeoutAfter(ReminderMinutes(remindData)),
     at |-> now, boot |-> boots]
Due(x) == x.at + x.after

\* One [REMIND] match: parse, strip, setTimeout.
RemindStep(st, tag, to) ==
    IF tag.ok
    THEN [clean |-> Trim(RemoveFirst(st.clean, tag)),
          scheduled |-> Append(st.scheduled, Timer(to, tag.payload))]
    ELSE st

RECURSIVE ParseReminds(_, _, _, _)
ParseReminds(st, raw, to, i) ==
    IF i > Len(raw) THEN st
    ELSE IF raw[i].t = "REMIND"
    THEN ParseReminds(RemindStep(st, raw[i], to), raw, to, i + 1)
    ELSE ParseReminds(st, raw, to, i + 1)

\* The pending callbacks are a bag.
RECURSIVE AddTimers(_, _)
AddTimers(bag, scheduled) ==
    IF scheduled = <<>> THEN bag
    ELSE AddTimers(bag (+) SetToBag({Head(scheduled)}), Tail(scheduled))

\* ------------------------------------------------------- initial state
NoRet == [kind |-> "none"]
Op(name, kind, id, limit) == [name |-> name, kind |-> kind, id |-> id, limit |-> limit]

IdleTurn ==
    [pc |-> "idle", userId |-> 0, userText |-> Null,
     memory |-> Null, targetMemory |-> Null, rawResponse |-> <<>>,
     cleanResponse |-> <<>>, scheduled |-> <<>>, reply |-> Null,
     loadedFacts |-> EmptyFacts, before |-> {}, wrote |-> {}, ignored |-> FALSE,
     failed |-> FALSE, logged |-> 0]

NoMsg ==
    [turn |-> 0, from |-> 0, username |-> NoName, chatType |-> "none",
     isMentioned |-> FALSE, isReply |-> FALSE]

Init ==
    /\ disk = EmptyDisk
    /\ found = {}
    /\ ret = NoRet
    /\ op = Op("init", "none", 0, 0)
    /\ turns = [t \in Turns |-> IdleTurn]
    /\ running = 0
    /\ timers = EmptyBag
    /\ delivered = EmptyBag
    /\ now = 0
    /\ boots = 0
    /\ fault = "none"
    /\ msg = NoMsg
    /\ uncaught = {}
    /\ cap = 0
    /\ appended = [users |-> [u \in Users |-> <<>>], groups |-> [g \in Groups |-> <<>>]]

HandlerVars == <<turns, running, timers, delivered>>
EnvVars == <<now, boots, fault>>

\* ------------------------------------------- calls of memory_manager
\* The exceptions that have escaped, after a call that threw or did not.
Escaped(name, threw) == IF threw THEN uncaught \cup {name} ELSE uncaught

CallLoadUserMemory(u) ==
    LET l == loadUserMemory(disk, u)
    IN  /\ disk' = l.disk
        /\ found' = found \cup l.errs
        /\ ret' = [kind |-> "user", val |-> l.ret]
        /\ op' = Op("loadUserMemory", "user", u, 0)
        /\ msg' = NoMsg
        /\ UNCHANGED <<HandlerVars, EnvVars, uncaught, cap, appended>>

\* The caller saves the record it holds, the one the last call returned.
CallSaveUserMemory(u) ==
    LET s == saveUserMemory(disk, u, ret.val)
    IN  /\ ret.kind = "user"
        /\ ret.val.id = u
        /\ disk' = s.disk
        /\ uncaught' = Escaped("saveUserMemory", s.threw)
        /\ op' = Op("saveUserMemory", "user", u, 0)
        /\ msg' = NoMsg
        /\ UNCHANGED <<found, ret, HandlerVars, EnvVars, cap, appended>>

CallUpdateMemory(u, updates) ==
    LET r == updateMemory(disk, u, updates)
    IN  /\ disk' = r.disk
        /\ found' = found \cup r.errs
        /\ uncaught' = Escaped("updateMemory", r.threw)
        /\ ret' = [kind |-> "user", val |-> r.ret]
        /\ op' = Op("updateMemory", "user", u, 0)
        /\ msg' = NoMsg
        /\ UNCHANGED <<HandlerVars, EnvVars, cap, appended>>

AddToHistoryCall(u, message, limit) ==
    LET r == addToHistory(disk, u, message, limit)
    IN  /\ disk' = r.disk
        /\ found' = found \cup r.errs
        /\ uncaught' = Escaped("addToHistory", r.threw)
        /\ msg' = NoMsg
        /\ UNCHANGED <<ret, HandlerVars, EnvVars, cap>>

CallAddToHistory(u, message, limit) ==
    /\ AddToHistoryCall(u, message, limit)
    /\ op' = Op("addToHistory", "user", u, limit)
    /\ UNCHANGED appended

\* addToHistory(userId, message): the limit takes its default.
CallAddToHistoryDefault(u, message) ==
    /\ AddToHistoryCall(u, message, HistoryLimit)
    /\ UNCHANGED <<op, appended>>

\* updateMemory(userId, updates) as a statement, its result dropped.
UpdateMemoryStatement(u, updates) ==
    /\ disk' = updateMemory(disk, u, updates).disk
    /\ found' = found \cup updateMemory(disk, u, updates).errs
    /\ uncaught' = Escaped("updateMemory", updateMemory(disk, u, updates).threw)
    /\ msg' = NoMsg
    /\ UNCHANGED <<ret, op, HandlerVars, EnvVars, cap, appended>>

\* findUserByUsername(username): the scan returns a match or null.
CallFindUserByUsername(username) ==
    /\ \E data \in findUserByUsername(disk, username) :
         ret' = [kind |-> "found", val |-> data]
    /\ op' = Op("findUserByUsername", "user", username, 0)
    /\ msg' = NoMsg
    /\ UNCHANGED <<disk, found, HandlerVars, EnvVars, uncaught, cap, appended>>

CallLoadGroupData(g) ==
    LET l == loadGroupData(disk, g)
    IN  /\ disk' = l.disk
        /\ found' = found \cup l.errs
        /\ ret' = [kind |-> "group", val |-> l.ret]
        /\ op' = Op("loadGroupData", "group", g, 0)
        /\ msg' = NoMsg
        /\ UNCHANGED <<HandlerVars, EnvVars, uncaught, cap, appended>>

CallSaveGroupData(g) ==
    LET s == saveGroupData(disk, g, ret.val)
    IN  /\ ret.kind = "group"
        /\ ret.val.id = g
        /\ disk' = s.disk
        /\ uncaught' = Escaped("saveGroupData", s.threw)
        /\ op' = Op("saveGroupData", "group", g, 0)
        /\ msg' = NoMsg
        /\ UNCHANGED <<found, ret, HandlerVars, EnvVars, cap, appended>>

AddGroupMessageCall(g, message, limit) ==
    LET r == addGroupMessage(disk, g, message, limit)
    IN  /\ disk' = r.disk
        /\ found' = found \cup r.errs
        /\ uncaught' = Escaped("addGroupMessage", r.threw)
        /\ msg' = NoMsg
        /\ UNCHANGED <<ret, HandlerVars, EnvVars, cap>>

CallAddGroupMessage(g, message, limit) ==
    /\ AddGroupMessageCall(g, message, limit)
    /\ op' = Op("addGroupMessage", "group", g, limit)
    /\ UNCHANGED appended

\* addGroupMessage(chatId, message): the limit takes its default.
CallAddGroupMessageDefault(g, message) ==
    /\ AddGroupMessageCall(g, message, GroupLimit)
    /\ UNCHANGED <<op, appended>>

\* A write torn by a crash, or any other damage: the file holds bytes that
\* JSON.parse rejects.
TornTags == {1, 2}
CorruptUser(u, n) ==
    /\ disk' = [disk EXCEPT !.users[u] = Torn(n)]
    /\ op' = Op("corrupt", "user", u, 0)
    /\ msg' = NoMsg
    /\ UNCHANGED <<found, ret, HandlerVars, EnvVars, uncaught, cap, appended>>

CorruptGroup(g, n) ==
    /\ disk' = [disk EXCEPT !.groups[g] = Torn(n)]
    /\ op' = Op("corrupt", "group", g, 0)
    /\ msg' = NoMsg
    /\ UNCHANGED <<found, ret, HandlerVars, EnvVars, uncaught, cap, appended>>

\* The file system starts or stops failing writes.
Faults == {"none", "open", "write"}
SetFault(f) ==
    /\ f # fault
    /\ fault' = f
    /\ msg' = NoMsg
    /\ UNCHANGED <<disk, found, ret, op, HandlerVars, now, boots, uncaught, cap, appended>>

\* bot.start: the greeting is sent and the memory loaded, its result dropped.
Start(u) ==
    LET l == loadUserMemory(disk, u)
    IN  /\ running = 0
        /\ disk' = l.disk
        /\ found' = found \cup l.errs
        /\ op' = Op("start", "user", u, 0)
        /\ msg' = NoMsg
        /\ UNCHANGED <<ret, HandlerVars, EnvVars, uncaught, cap, appended>>

\* ---------------------------------------------- bot.on('text'), index.js
StoreVars == <<ret, op, cap, appended>>

\* ctx.from, ctx.chat.type and, evaluated in a group only, isMentioned and
\* isReply.
Message(t, u, fromUsername, chatType, isMentioned, isReply) ==
    [turn |-> t, from |-> u, username |-> fromUsername, chatType |-> chatType,
     isMentioned |-> chatType \in {"group", "supergroup"} /\ isMentioned,
     isReply |-> chatType \in {"group", "supergroup"} /\ isReply]

\* A text handler that loads the sender's memory before it looks at the chat.
IgnoreTextLoads(t, u, fromUsername, chatType, isMentioned, isReply) ==
    /\ running = 0
    /\ turns[t].pc = "idle"
    /\ \A s \in Turns : s < t => turns[s].pc # "idle"
    /\ chatType \in {"group", "supergroup"}
    /\ ~isMentioned /\ ~isReply
    /\ turns' = [turns EXCEPT ![t] =
                    [IdleTurn EXCEPT !.pc = "returned", !.ignored = TRUE]]
    /\ msg' = Message(t, u, fromUsername, chatType, isMentioned, isReply)
    /\ disk' = saveUserMemory(disk, u, loadUserMemory(disk, u).ret).disk
    /\ UNCHANGED <<found, running, timers, delivered, StoreVars, EnvVars, uncaught>>

\* A group message that neither mentions the bot nor replies to it: return.
IgnoreText(t, u, fromUsername, chatType, isMentioned, isReply) ==
    /\ running = 0
    /\ turns[t].pc = "idle"
    /\ \A s \in Turns : s < t => turns[s].pc # "idle"
    /\ chatType \in {"group", "supergroup"}
    /\ ~isMentioned /\ ~isReply
    /\ turns' = [turns EXCEPT ![t] =
                    [IdleTurn EXCEPT !.pc = "returned", !.ignored = TRUE]]
    /\ msg' = Message(t, u, fromUsername, chatType, isMentioned, isReply)
    /\ UNCHANGED <<disk, found, running, timers, delivered, StoreVars, EnvVars,
                   uncaught>>

\* A handler step that made a call with result r: where the turn is next,
\* what the call logged and what escaped.  An exception thrown by the call
\* ends the handler there.
Step(t, pc, r) ==
    /\ turns' = [turns EXCEPT ![t].pc = IF r.threw THEN "crashed" ELSE pc,
                              ![t].logged = IF r.logged THEN @ + 1 ELSE @]
    /\ running' = IF r.threw THEN 0 ELSE running
    /\ uncaught' = Escaped("text", r.threw)

\* A text handler that syncs the username in memory only.
ReceiveTextNoSave(t, u, fromUsername, chatType, isMentioned, isReply, userText) ==
    LET l == loadUserMemory(disk, u)
        sync == fromUsername # NoName /\ l.ret.username # fromUsername
        memory == IF sync THEN [l.ret EXCEPT !.username = fromUsername] ELSE l.ret
        search == /\ userText.whoIs # NoName
                  /\ ToLowerCase(userText.whoIs) # ToLowerCase(fromUsername)
    IN  /\ running = 0
        /\ turns[t].pc = "idle"
        /\ \A s \in Turns : s < t => turns[s].pc # "idle"
        /\ chatType \in {"group", "supergroup"} => (isMentioned \/ isReply)
        /\ \E targetMemory \in
               (IF search THEN findUserByUsername(l.disk, userText.whoIs) ELSE {Null}) :
             turns' = [turns EXCEPT ![t] =
                 [IdleTurn EXCEPT !.pc = "awaiting", !.userId = u,
                                  !.userText = userText,
                                  !.memory = memory, !.targetMemory = targetMemory,
                                  !.loadedFacts = l.ret.facts,
                                  !.before = {s \in Turns : turns[s].pc = "returned"}]]
        /\ msg' = Message(t, u, fromUsername, chatType, isMentioned, isReply)
        /\ disk' = l.disk
        /\ found' = found \cup l.errs
        /\ UNCHANGED <<running, timers, delivered, StoreVars, EnvVars, uncaught>>

\* Up to the await: load, username sync with its immediate save, the
\* "who is @name" lookup, and the call of generateResponse.
ReceiveText(t, u, fromUsername, chatType, isMentioned, isReply, userText) ==
    LET l == loadUserMemory(disk, u)
        sync == fromUsername # NoName /\ l.ret.username # fromUsername
        memory == IF sync THEN [l.ret EXCEPT !.username = fromUsername] ELSE l.ret
        s == IF sync THEN saveUserMemory(l.disk, u, memory)
             ELSE [disk |-> l.disk, threw |-> FALSE, logged |-> FALSE]
        search == /\ userText.whoIs # NoName
                  /\ ToLowerCase(userText.whoIs) # ToLowerCase(fromUsername)
    IN  /\ running = 0
        /\ turns[t].pc = "idle"
        /\ \A p \in Turns : p < t => turns[p].pc # "idle"
        /\ chatType \in {"group", "supergroup"} => (isMentioned \/ isReply)
        /\ \E targetMemory \in
               (IF search THEN findUserByUsername(s.disk, userText.whoIs) ELSE {Null}) :
             turns' = [turns EXCEPT ![t] =
                 [IdleTurn EXCEPT !.pc = IF s.threw THEN "crashed" ELSE "awaiting",
                                  !.userId = u,
                                  !.userText = userText,
                                  !.memory = memory, !.targetMemory = targetMemory,
                                  !.loadedFacts = l.ret.facts,
                                  !.logged = IF s.logged THEN 1 ELSE 0,
                                  !.before = {p \in Turns : turns[p].pc = "returned"}]]
        /\ msg' = Message(t, u, fromUsername, chatType, isMentioned, isReply)
        /\ disk' = s.disk
        /\ found' = found \cup l.errs
        /\ uncaught' = Escaped("text", s.threw)
        /\ UNCHANGED <<running, timers, delivered, StoreVars, EnvVars>>

\* The keys of the payloads JSON.parse accepted.
WrittenKeys(raw) ==
    UNION {FactKeys(raw[i].payload) :
             i \in {j \in 1..Len(raw) : raw[j].t = "UPDATE" /\ raw[j].ok}}

\* The await returns (the fallback text on an API error); both tag loops.
Generated(t, completion) ==
    LET raw == generateResponse(completion)
        st1 == ParseUpdates([facts |-> turns[t].memory.facts, clean |-> raw], raw, 1)
        st2 == ParseReminds([clean |-> st1.clean, scheduled |-> <<>>], raw,
                            turns[t].userId, 1)
    IN  /\ running = 0
        /\ turns[t].pc = "awaiting"
        /\ running' = t
        /\ turns' = [turns EXCEPT ![t].pc = "applied",
                                  ![t].rawResponse = raw,
                                  ![t].cleanResponse = st2.clean,
                                  ![t].scheduled = st2.scheduled,
                                  ![t].memory.facts = st1.facts,
                                  ![t].wrote = WrittenKeys(raw),
                                  ![t].failed = (completion = ApiError)]
        /\ timers' = AddTimers(timers, st2.scheduled)
        /\ msg' = NoMsg
        /\ UNCHANGED <<disk, found, delivered, StoreVars, EnvVars, uncaught>>

UserEntry(userText) == [role |-> "user", content |-> [text |-> userText]]
AssistantEntry(clean) == [role |-> "assistant", content |-> [tokens |-> clean]]

\* addToHistory(userId, { role: 'user', content: userText })
AppendUser(t) ==
    LET r == addToHistory(disk, turns[t].userId, UserEntry(turns[t].userText),
                          HistoryLimit)
    IN  /\ running = t
        /\ turns[t].pc = "applied"
        /\ disk' = r.disk
        /\ found' = found \cup r.errs
        /\ Step(t, "appended1", r)
        /\ msg' = NoMsg
        /\ UNCHANGED <<timers, delivered, StoreVars, EnvVars>>

\* addToHistory(userId, { role: 'assistant', content: cleanResponse })
AppendAssistant(t) ==
    LET r == addToHistory(disk, turns[t].userId,
                          AssistantEntry(turns[t].cleanResponse), HistoryLimit)
    IN  /\ running = t
        /\ turns[t].pc = "appended1"
        /\ disk' = r.disk
        /\ found' = found \cup r.errs
        /\ Step(t, "appended2", r)
        /\ msg' = NoMsg
        /\ UNCHANGED <<timers, delivered, StoreVars, EnvVars>>

\* saveUserMemory(userId, memory): the record loaded before the await.
FinalSave(t) ==
    LET s == saveUserMemory(disk, turns[t].userId, turns[t].memory)
    IN  /\ running = t
        /\ turns[t].pc = "appended2"
        /\ disk' = s.disk
        /\ Step(t, "saved", s)
        /\ msg' = NoMsg
        /\ UNCHANGED <<found, timers, delivered, StoreVars, EnvVars>>

\* if (cleanResponse) ctx.reply(cleanResponse)
SendReply(t) ==
    /\ running = t
    /\ turns[t].pc = "saved"
    /\ turns' = [turns EXCEPT ![t].pc = "done",
                              ![t].reply = IF turns[t].cleanResponse # <<>>
                                           THEN [tokens |-> turns[t].cleanResponse]
                                           ELSE Null]
    /\ msg' = NoMsg
    /\ UNCHANGED <<disk, found, running, timers, delivered, StoreVars, EnvVars,
                   uncaught>>

\* The handler returns: its locals are gone, the next handler may run.
Return(t) ==
    /\ running = t
    /\ turns[t].pc = "done"
    /\ running' = 0
    /\ turns' = [turns EXCEPT ![t] =
                    [IdleTurn EXCEPT !.pc = "returned", !.userId = turns[t].userId,
                                     !.wrote = turns[t].wrote]]
    /\ msg' = NoMsg
    /\ UNCHANGED <<disk, found, timers, delivered, StoreVars, EnvVars, uncaught>>

\* ------------------------------------------------ the timers and the clock
Least(S) == CHOOSE x \in S : \A y \in S : x <= y

\* The setTimeout callback, run by the event loop once the timer's delay has
\* passed: ctx.reply of the reminder.
FireTimer(x) ==
    /\ running = 0
    /\ BagIn(x, timers)
    /\ now >= Due(x)
    /\ timers' = timers (-) SetToBag({x})
    /\ delivered' = delivered (+) SetToBag({x})
    /\ msg' = NoMsg
    /\ UNCHANGED <<disk, found, turns, running, StoreVars, EnvVars, uncaught>>

\* Time passes, up to the moment the next pending timer is due.
Tick ==
    LET later == {Due(x) : x \in {y \in BagToSet(timers) : Due(y) > now}}
    IN  /\ later # {}
        /\ now' = Least(later)
        /\ msg' = NoMsg
        /\ UNCHANGED <<disk, found, turns, running, timers, delivered,
                       StoreVars, boots, fault, uncaught>>

\* The process stops and starts again: the handlers in flight and the
\* pending timers, which live in memory only, are gone; the files stay.
Restart ==
    /\ boots < MaxBoots
    /\ boots' = boots + 1
    /\ timers' = EmptyBag
    /\ running' = 0
    /\ turns' = [t \in Turns |->
                   IF turns[t].pc \in {"idle", "returned"} THEN turns[t]
                   ELSE [IdleTurn EXCEPT !.pc = "killed", !.userId = turns[t].userId]]
    /\ msg' = NoMsg
    /\ UNCHANGED <<disk, found, delivered, StoreVars, now, fault, uncaught>>

\* ------------------------------------------------------ specifications
ChatTypes == {"private", "group", "supergroup"}
Hi == [body |-> "hi", whoIs |-> NoName]
WhoIs(n) == [body |-> "who is", whoIs |-> n]

\* The texts the generation call returns in the interleaved runs: plain,
\* with well-formed and malformed tags, tags only, and the example
\* "Got it. [UPDATE: ...] [REMIND: ...] See you soon.".
Remind5 == RemindTag([minutes |-> Num(5), text |-> Str("Stretch!")])
Completions ==
    {<<Word("ok")>>,
     <<Word("ok"), Blank, UpdateTag([name |-> "Alex", mood |-> NoVal])>>,
     <<UpdateTag([name |-> "Sam", mood |-> NoVal])>>,
     <<UpdateTag([name |-> NoVal, mood |-> "happy"])>>,
     <<Word("ok"), Blank, BadUpdateTag>>,
     <<BadRemindTag, Blank, Word("ok")>>,
     <<Word("ok"), Blank, UpdateTag([name |-> NoVal, mood |-> "happy"]), Blank,
       Remind5, Blank, Word("ok")>>,
     ApiError}

\* The steps of a turn after its message was received.
TurnSteps(completions) ==
    \/ \E t \in Turns, completion \in completions : Generated(t, completion)
    \/ \E t \in Turns : AppendUser(t)
    \/ \E t \in Turns : AppendAssistant(t)
    \/ \E t \in Turns : FinalSave(t)
    \/ \E t \in Turns : SendReply(t)
    \/ \E t \in Turns : Return(t)

\* Messages arrive at any time: turns interleave at the await.
Next ==
    \/ \E t \in Turns, u \in Users, n \in {NoName, "Alex"}, c \in ChatTypes,
          m \in BOOLEAN, r \in BOOLEAN :
         IgnoreText(t, u, n, c, m, r)
    \/ \E t \in Turns, u \in Users, n \in {NoName, "Alex"}, c \in ChatTypes,
          m \in BOOLEAN, r \in BOOLEAN, x \in {Hi} :
         ReceiveText(t, u, n, c, m, r, x)
    \/ TurnSteps(Completions)

Spec == Init /\ [][Next]_vars

\* Two messages of one user arrive one after the other, the second after
\* the first turn returned; the generated text is any text of at most
\* MaxLen tokens.
NoTurnInFlight == \A s \in Turns : turns[s].pc \in {"idle", "returned"}

NextSeq ==
    \/ \E t \in {1, 2}, c \in ChatTypes, m \in BOOLEAN, r \in BOOLEAN :
         NoTurnInFlight /\ IgnoreText(t, 1, "Alex", c, m, r)
    \/ \E t \in {1, 2}, c \in ChatTypes, m \in BOOLEAN, r \in BOOLEAN :
         NoTurnInFlight /\ ReceiveText(t, 1, "Alex", c, m, r, Hi)
    \/ TurnSteps(Texts(Tokens, MaxLen) \cup {ApiError})

SpecSeq == Init /\ [][NextSeq]_vars

\* The calls of memory_manager made one by one by a caller that holds the
\* record the last call returned; files get damaged at any time.
StoreMessage == [role |-> "user", content |-> [text |-> Hi]]
GroupMessage == [sender |-> "Alex", content |-> [text |-> Hi]]
Limits == (0 - 1)..MaxCap

NextStore ==
    \/ CallLoadUserMemory(1)
    \/ CallSaveUserMemory(1)
    \/ CallUpdateMemory(1, [language |-> "en"])
    \/ \E limit \in Limits :
         /\ Len(HistoryOf(disk, 1)) < MaxAppends
         /\ CallAddToHistory(1, StoreMessage, limit)
    \/ \E g \in Groups : CallLoadGroupData(g)
    \/ \E g \in Groups : CallSaveGroupData(g)
    \/ \E g \in Groups, limit \in Limits :
         /\ Len(MessagesOf(disk, g)) < MaxAppends
         /\ CallAddGroupMessage(g, GroupMessage, limit)
    \/ \E n \in TornTags : CorruptUser(1, n)
    \/ \E g \in Groups, n \in TornTags : CorruptGroup(g, n)
    \/ Start(1)

SpecStore == Init /\ [][NextStore]_vars

\* The rolling buffers alone: every append is made with one capacity, fixed
\* at the start, and nothing else writes the files.
BufferItems == {"a", "b"}
HistoryItem(x) == [role |-> "user", content |-> [text |-> x]]
GroupItem(x) == [sender |-> "Alex", content |-> [text |-> x]]

InitBuf ==
    /\ disk = EmptyDisk
    /\ found = {}
    /\ ret = NoRet
    /\ op = Op("init", "none", 0, 0)
    /\ turns = [t \in Turns |-> IdleTurn]
    /\ running = 0
    /\ timers = EmptyBag
    /\ delivered = EmptyBag
    /\ now = 0
    /\ boots = 0
    /\ fault = "none"
    /\ msg = NoMsg
    /\ uncaught = {}
    /\ cap \in 0..MaxCap
    /\ appended = [users |-> [u \in Users |-> <<>>], groups |-> [g \in Groups |-> <<>>]]

BufAddToHistory(u, x) ==
    /\ Len(appended.users[u]) < MaxAppends
    /\ AddToHistoryCall(u, HistoryItem(x), cap)
    /\ appended' = [appended EXCEPT !.users[u] = Append(@, HistoryItem(x))]
    /\ UNCHANGED op

BufAddGroupMessage(g, x) ==
    /\ Len(appended.groups[g]) < MaxAppends
    /\ AddGroupMessageCall(g, GroupItem(x), cap)
    /\ appended' = [appended EXCEPT !.groups[g] = Append(@, GroupItem(x))]
    /\ UNCHANGED op

NextBuf ==
    \/ \E x \in BufferItems : BufAddToHistory(1, x)
    \/ \E g \in Groups, x \in BufferItems : BufAddGroupMessage(g, x)

SpecBuf == InitBuf /\ [][NextBuf]_vars

\* From the empty store: the store's calls with the default limits, /start
\* and a text turn, in any order.
NextDefault ==
    \/ running = 0 /\ CallAddToHistoryDefault(1, StoreMessage)
    \/ \E g \in Groups : running = 0 /\ CallAddGroupMessageDefault(g, GroupMessage)
    \/ running = 0 /\ UpdateMemoryStatement(1, [language |-> "en"])
    \/ Start(1)
    \/ \E c \in ChatTypes, m \in BOOLEAN, r \in BOOLEAN :
         ReceiveText(1, 1, "Alex", c, m, r, Hi)
    \/ TurnSteps({<<Word("ok")>>})

SpecDefault == Init /\ [][NextDefault]_vars

\* The file system fails writes, on and off, while turns run one after the
\* other and the group store is used; the texts generated bring the other kinds of error: a
\* malformed directive and a failed generation call.
FaultCompletions ==
    {<<Word("ok")>>,
     <<Word("ok"), Blank, UpdateTag([name |-> "Sam", mood |-> NoVal]), Blank, Remind5>>,
     <<Word("ok"), Blank, BadUpdateTag>>,
     ApiError}

NextFault ==
    \/ \E f \in Faults : SetFault(f)
    \/ \E t \in Turns :
         NoTurnInFlight /\ ReceiveText(t, 1, "Alex", "private", FALSE, FALSE, Hi)
    \/ TurnSteps(FaultCompletions)
    \/ \E g \in Groups : NoTurnInFlight /\ CallLoadGroupData(g)
    \/ \E g \in Groups : NoTurnInFlight /\ CallSaveGroupData(g)

SpecFault == Init /\ [][NextFault]_vars

\* Two users write to the bot under their names, with and without a
\* username, and ask who the other is; their turns interleave at the await
\* and their files get damaged between turns.
NameCompletions == {<<Word("ok")>>, <<UpdateTag([name |-> "Sam", mood |-> NoVal])>>}

NextNames ==
    \/ \E t \in Turns, u \in Users, n \in {NoName, "Alex", "Sam"},
          x \in {Hi, WhoIs("alex")} :
         ReceiveText(t, u, n, "private", FALSE, FALSE, x)
    \/ TurnSteps(NameCompletions)
    \/ \E u \in Users : NoTurnInFlight /\ CorruptUser(u, 1)

SpecNames == Init /\ [][NextNames]_vars

\* The name index: records get usernames, files get damaged and backed up,
\* and the index is asked for names written in several ways.
Queries == {"Alex", "@Alex", "alex", "Sam", "@sam"}

NextFind ==
    \/ \E u \in Users, n \in {"Alex", "Sam"} : CallUpdateMemory(u, [username |-> n])
    \/ \E u \in Users, n \in TornTags : CorruptUser(u, n)
    \/ \E u \in Users : CallLoadUserMemory(u)
    \/ \E q \in Queries : CallFindUserByUsername(q)

SpecFind == Init /\ [][NextFind]_vars

\* The reminders: the payloads of [REMIND] with minutes a number, zero,
\* negative, beyond what a timer takes, a text that is no number, or absent,
\* and with the text given or absent.  Time passes, the callbacks run, the
\* process restarts.  The generation call has no timeout, so nothing says a
\* turn ever gets its text; what the event loop has to run, it runs.
MinutesInputs == {Absent, Num(0), Num(2), Num(0 - 5), Num(40000), Str("soon")}
RemindInputs ==
    {[minutes |-> m, text |-> x] : m \in MinutesInputs, x \in {Absent, Str("Stretch!")}}
Remind2 == RemindTag([minutes |-> Num(2), text |-> Str("Stretch!")])
RemindCompletions ==
    {<<RemindTag(p)>> : p \in RemindInputs}
        \cup {<<Word("ok")>>, <<BadRemindTag>>, <<BadRemindTag, Remind2>>,
              <<Word("ok"), Blank, Remind2, Blank, Remind2>>}

NextTimer ==
    \/ \E t \in Turns : ReceiveText(t, 1, "Alex", "private", FALSE, FALSE, Hi)
    \/ TurnSteps(RemindCompletions)
    \/ \E x \in BagToSet(timers) : FireTimer(x)
    \/ Tick
    \/ Restart

SpecTimer ==
    /\ Init
    /\ [][NextTimer]_vars
    /\ WF_vars(\E t \in Turns : AppendUser(t) \/ AppendAssistant(t) \/ FinalSave(t)
                                   \/ SendReply(t) \/ Return(t))
    /\ WF_vars(Tick)
    /\ WF_vars(\E x \in BagToSet(timers) : FireTimer(x))

\* ---------------------------------------------------------- properties
Min(a, b) == IF a < b THEN a ELSE b
Max(S) == CHOOSE x \in S : \A y \in S : y <= x

\* The well-formed UPDATE tags of a text that name key k, by position.
Naming(raw, k) ==
    {i \in 1..Len(raw) : raw[i].t = "UPDATE" /\ raw[i].ok /\ raw[i].payload[k] # NoVal}

\* The facts a turn is to leave: for each key the value of the textually
\* last well-formed UPDATE naming it, else the value loaded.
ExpectedFacts(loadedFacts, raw) ==
    [k \in Keys |-> IF Naming(raw, k) = {} THEN loadedFacts[k]
                    ELSE raw[Max(Naming(raw, k))].payload[k]]

AfterFinalSave(t) == turns[t].pc \in {"saved", "done"}
Processed(t) == turns[t].pc \in {"applied", "appended1", "appended2", "saved", "done"}
IsTag(token) == token.t \in {"UPDATE", "REMIND"}

\* C1: once a turn has done its final save, the persisted history of its
\* user ends with the entry of the user's message followed by the entry of
\* the cleaned reply.
C1_ExchangeKept ==
    \A t \in Turns : AfterFinalSave(t) =>
        LET h == HistoryOf(disk, turns[t].userId)
        IN  /\ Len(h) >= 2
            /\ h[Len(h) - 1] = UserEntry(turns[t].userText)
            /\ h[Len(h)] = AssistantEntry(turns[t].cleanResponse)

\* Turn a was in flight together with turn b, and b saved last: a has
\* returned, and had not when b loaded.
Overlapped(a, b) ==
    /\ a # b
    /\ AfterFinalSave(b)
    /\ turns[a].pc = "returned"
    /\ ~turns[a].ignored
    /\ turns[a].userId = turns[b].userId
    /\ a \notin turns[b].before

\* Key k of user u was written by turn a and by no other turn.
OnlyWriter(a, k) ==
    /\ k \in turns[a].wrote
    /\ \A s \in Turns \ {a} :
         ~(turns[s].userId = turns[a].userId /\ k \in turns[s].wrote)

\* C2: of two turns of one user in flight at once, the one that saves last
\* wins: the persisted facts are its loaded facts merged with its own
\* UPDATE payloads, and a key only the other turn wrote is absent.
C2_LastSaveWins ==
    \A a \in Turns, b \in Turns : Overlapped(a, b) =>
        LET rec == UserRecordOf(disk, turns[b].userId)
        IN  /\ rec # Null
            /\ rec.facts = ExpectedFacts(turns[b].loadedFacts, turns[b].rawResponse)
            /\ \A k \in Keys : OnlyWriter(a, k) => rec.facts[k] = NoVal

C2_Witness ==
    \E a \in Turns, b \in Turns :
        /\ Overlapped(a, b)
        /\ \E k \in Keys : OnlyWriter(a, k)
        /\ turns[b].wrote # {}

\* C3: no directive tag, well-formed or malformed, is left in the cleaned
\* text, and a malformed UPDATE adds no fact.
C3_TagsStripped ==
    \A t \in Turns : Processed(t) =>
        /\ \A i \in 1..Len(turns[t].cleanResponse) : ~IsTag(turns[t].cleanResponse[i])
        /\ turns[t].memory.facts =
               ExpectedFacts(turns[t].loadedFacts, turns[t].rawResponse)

\* C4: the bytes a load could not parse stay on disk, in the slot or in its
\* backup (only user files have one).
C4_CorruptBytesKept ==
    \A f \in found :
        IF f[1] = "user"
        THEN f[3] \in {disk.users[f[2]], disk.bak[f[2]]}
        ELSE f[3] = disk.groups[f[2]]

\* C5: an append made with a limit <= 0 leaves the stored sequence empty.
C5_NonPositiveKeepsNothing ==
    /\ (op.name = "addToHistory" /\ op.limit <= 0) => HistoryOf(disk, op.id) = <<>>
    /\ (op.name = "addGroupMessage" /\ op.limit <= 0) => MessagesOf(disk, op.id) = <<>>

\* C6: every persisted history has at most 15 entries and every persisted
\* group log at most 50.
C6_Caps ==
    /\ \A u \in Users : Len(HistoryOf(disk, u)) <= 15
    /\ \A g \in Groups : Len(MessagesOf(disk, g)) <= 50

\* Both buffers are full and a turn has appended its exchange to a history
\* that was full when it loaded.
C6_Witness ==
    /\ turns[1].pc = "appended2"
    /\ Len(turns[1].memory.history) = 15
    /\ Len(HistoryOf(disk, 1)) = 15
    /\ Len(MessagesOf(disk, 1)) = 50

\* The last min(n, c) of the n items appended.
MostRecent(items, c) ==
    SubSeq(items, Len(items) - Min(Len(items), c) + 1, Len(items))

\* C7: after n appends made with capacity c the persisted sequence is the
\* most recent min(n, c) items appended, in order.
C7_MostRecentKept ==
    /\ \A u \in Users : appended.users[u] # <<>> =>
         HistoryOf(disk, u) = MostRecent(appended.users[u], cap)
    /\ \A g \in Groups : appended.groups[g] # <<>> =>
         MessagesOf(disk, g) = MostRecent(appended.groups[g], cap)

IsUserLoad(o, u) == o.name \in {"loadUserMemory", "start"} /\ o.id = u

\* C8: a load of a user slot that holds unparseable bytes returns the
\* default record, leaves the bytes in the backup and no slot, so that the
\* next load returns the default again.
C8_CorruptLoad ==
    [][\A u \in Users :
         (IsUserLoad(op', u) /\ disk.users[u].kind = "torn") =>
            /\ disk'.bak[u] = disk.users[u]
            /\ disk'.users[u] = NoFile
            /\ loadUserMemory(disk', u).ret = DefaultMemory(u)
            /\ op'.name = "loadUserMemory" =>
                   /\ ret'.val.id = u
                   /\ ret'.val.facts = EmptyFacts
                   /\ ret'.val.history = <<>>
                   /\ ret'.val.language = "ru"]_vars

C8_Witness ==
    /\ op.name = "loadUserMemory"
    /\ disk.users[op.id] = NoFile
    /\ disk.bak[op.id].kind = "torn"
    /\ <<"user", op.id, disk.bak[op.id]>> \in found
    /\ ret.val = DefaultMemory(op.id)

C10_FactsMerged ==
    \A t \in Turns : AfterFinalSave(t) =>
        LET rec == UserRecordOf(disk, turns[t].userId)
        IN  /\ rec # Null
            /\ rec.facts = ExpectedFacts(turns[t].loadedFacts, turns[t].rawResponse)
            /\ FactKeys(turns[t].loadedFacts) \subseteq FactKeys(rec.facts)

\* A loaded key overwritten twice in one text: the later value is kept.
C10_Witness ==
    \E t \in Turns :
        /\ turns[t].pc = "done"
        /\ turns[t].loadedFacts["name"] # NoVal
        /\ Len(turns[t].rawResponse) = 2
        /\ Naming(turns[t].rawResponse, "name") = {1, 2}
        /\ turns[t].rawResponse[1] # turns[t].rawResponse[2]
        /\ turns[t].rawResponse[2].payload["name"] # turns[t].loadedFacts["name"]
        /\ UserRecordOf(disk, turns[t].userId).facts["name"]
               = turns[t].rawResponse[2].payload["name"]

\* The synchronous steps of turn t, for ENABLED.
TurnStep(t) ==
    AppendUser(t) \/ AppendAssistant(t) \/ FinalSave(t) \/ SendReply(t) \/ Return(t)

Malformed(raw) == \E i \in 1..Len(raw) : IsTag(raw[i]) /\ ~raw[i].ok
WellFormedReminds(raw) == SelectSeq(raw, LAMBDA x : x.t = "REMIND" /\ x.ok)

\* The callbacks scheduled are those of the well-formed REMIND tags, in
\* textual order, and each is pending.
RemindersScheduled(t) ==
    LET tags == WellFormedReminds(turns[t].rawResponse)
    IN  /\ Len(turns[t].scheduled) = Len(tags)
        /\ \A i \in 1..Len(tags) :
              /\ turns[t].scheduled[i].to = turns[t].userId
              /\ turns[t].scheduled[i].minutes = ReminderMinutes(tags[i].payload)
              /\ turns[t].scheduled[i].text = ReminderText(tags[i].payload)
              /\ BagIn(turns[t].scheduled[i], timers)

\* The bookkeeping of a turn: the two appends reach the file, the final save
\* writes the turn's record, and the turn is never stuck.
Bookkeeping(t) ==
    /\ turns[t].pc # "crashed"
    /\ turns[t].pc = "appended2" =>
          LET h == HistoryOf(disk, turns[t].userId)
          IN  /\ Len(h) >= 2
              /\ h[Len(h) - 1] = UserEntry(turns[t].userText)
              /\ h[Len(h)] = AssistantEntry(turns[t].cleanResponse)
    /\ AfterFinalSave(t) => UserRecordOf(disk, turns[t].userId) = turns[t].memory
    /\ Processed(t) => ENABLED TurnStep(t)

\* C11: a turn whose generated text holds a malformed directive still applies
\* every well-formed UPDATE and REMIND of the text, does its history
\* bookkeeping and final save, and sends the reply.
C11_MalformedDoesNotAbort ==
    \A t \in Turns : (Processed(t) /\ Malformed(turns[t].rawResponse)) =>
        /\ turns[t].memory.facts =
               ExpectedFacts(turns[t].loadedFacts, turns[t].rawResponse)
        /\ RemindersScheduled(t)
        /\ Bookkeeping(t)
        /\ turns[t].pc = "done" =>
              /\ turns[t].reply # Null
              /\ turns[t].reply.tokens = turns[t].cleanResponse

\* A well-formed REMIND after a malformed UPDATE, scheduled by a turn that
\* ran to its end and replied.
C11_Witness ==
    \E t \in Turns :
        /\ turns[t].pc = "done"
        /\ turns[t].rawResponse = <<BadUpdateTag, Remind5>>
        /\ Len(turns[t].scheduled) = 1
        /\ BagIn(turns[t].scheduled[1], timers)
        /\ turns[t].reply # Null
        /\ UserRecordOf(disk, turns[t].userId) = turns[t].memory

\* The delay and the text a REMIND payload asks for: the minutes when they
\* are a number above zero and otherwise one minute; the text, or the
\* placeholder when there is none.
ValidMinutes(minutes) == minutes.kind = "num" /\ minutes.n > 0
DelayAsked(remindData) ==
    IF ValidMinutes(remindData.minutes) THEN remindData.minutes.n ELSE 1
TextAsked(remindData) ==
    IF remindData.text = Absent THEN DefaultReminderText ELSE remindData.text

\* C12: a turn schedules one callback per well-formed REMIND tag and none for
\* a malformed one; the delay of each is the payload's minutes, or one
\* minute when the minutes are absent or invalid, and its text the payload's
\* text or the placeholder.
C12_RemindersAsAsked ==
    \A t \in Turns : Processed(t) =>
        LET tags == WellFormedReminds(turns[t].rawResponse)
        IN  /\ Len(turns[t].scheduled) = Len(tags)
            /\ \A i \in 1..Len(tags) :
                  /\ turns[t].scheduled[i].after = DelayAsked(tags[i].payload)
                  /\ turns[t].scheduled[i].text = TextAsked(tags[i].payload)

\* The delay the caller asked setTimeout for has passed: minutes * 60 * 1000
\* when that is a number.
Elapsed(x) == x.minutes.kind = "num" => now >= x.at + x.minutes.n
Delivered(x) == CopiesIn(x, delivered') = CopiesIn(x, delivered) + 1

\* A callback is delivered only when it was pending, in the run of the
\* process that scheduled it, once per scheduling and not before its delay
\* has passed; a pending callback goes away only by its delivery or by a
\* restart.
DeliveryStep ==
    \A x \in BagToSet(timers) \cup BagToSet(delivered') :
        /\ CopiesIn(x, delivered') >= CopiesIn(x, delivered)
        /\ CopiesIn(x, delivered') > CopiesIn(x, delivered) =>
              /\ Delivered(x)
              /\ CopiesIn(x, timers) >= 1
              /\ CopiesIn(x, timers') = CopiesIn(x, timers) - 1
              /\ x.boot = boots
              /\ Elapsed(x)
        /\ CopiesIn(x, timers') < CopiesIn(x, timers) =>
              Delivered(x) \/ boots' > boots

\* C13: every scheduled reminder is delivered exactly once, not before its
\* delay has passed, unless the process restarts first, and then never;
\* nothing cancels a pending reminder.
C13_DeliveredOnce ==
    /\ [][DeliveryStep]_vars
    /\ []<>(timers = EmptyBag)

\* The letters of a name, whatever their case and with or without the '@'.
Letters(s) ==
    CASE s \in {"Alex", "@Alex", "alex", "@alex"} -> "ALEX"
      [] s \in {"Sam", "@Sam", "sam", "@sam"} -> "SAM"
      [] OTHER -> s

\* The users whose file parses and holds a username with the letters of q.
Named(q) ==
    {u \in Users : /\ UserRecordOf(disk, u) # Null
                   /\ UserRecordOf(disk, u).username # NoName
                   /\ Letters(UserRecordOf(disk, u).username) = Letters(q)}

\* C14: findUserByUsername returns a record exactly when a parseable file
\* holds the name asked for, up to case and the '@', and then such a record;
\* damaged files and backups do not stop the scan.
C14_FindByName ==
    op.name = "findUserByUsername" =>
        /\ ret.val # Null <=> Named(op.id) # {}
        /\ ret.val # Null => \E u \in Named(op.id) : ret.val = UserRecordOf(disk, u)
        /\ uncaught = {}

\* One record named "Alex", found under the name "alex" while the other
\* user's file is damaged and has a backup.
C14_Witness ==
    /\ op.name = "findUserByUsername"
    /\ op.id = "alex"
    /\ Cardinality(Named("Alex")) = 1
    /\ ret.val # Null
    /\ ret.val.username = "Alex"
    /\ \E u \in Users : disk.users[u].kind = "torn" /\ disk.bak[u].kind = "torn"

\* C15: a turn whose generation call failed replies with the fallback text,
\* changes no fact, schedules no reminder, and does its history bookkeeping
\* and final save.
C15_GenerationFailure ==
    \A t \in Turns : (Processed(t) /\ turns[t].failed) =>
        /\ turns[t].cleanResponse = FallbackText
        /\ turns[t].memory.facts = turns[t].loadedFacts
        /\ turns[t].scheduled = <<>>
        /\ Bookkeeping(t)
        /\ turns[t].pc = "done" => turns[t].reply = [tokens |-> FallbackText]

\* A turn whose generation call failed has run to its end.
C15_Witness ==
    \E t \in Turns :
        /\ turns[t].failed
        /\ turns[t].pc = "done"
        /\ turns[t].reply = [tokens |-> FallbackText]
        /\ UserRecordOf(disk, turns[t].userId) = turns[t].memory

\* C16: whatever fails, a write of a file, a parse of a file, a directive or
\* the generation call, no exception leaves a save or the handler, and the
\* turn goes on as it does when every save succeeds: directives applied,
\* later steps taken, the reply sent.
C16_SaveFailureSwallowed ==
    /\ uncaught = {}
    /\ \A t \in Turns :
          /\ turns[t].pc # "crashed"
          /\ Processed(t) =>
                /\ turns[t].memory.facts =
                       ExpectedFacts(turns[t].loadedFacts, turns[t].rawResponse)
                /\ Len(turns[t].scheduled) = Len(WellFormedReminds(turns[t].rawResponse))
                /\ ENABLED TurnStep(t)
          /\ turns[t].pc = "done" =>
                turns[t].reply = IF turns[t].cleanResponse = <<>> THEN Null
                                 ELSE [tokens |-> turns[t].cleanResponse]

\* All four saves of a turn failed, nothing is in the file, and the turn
\* applied its directives and replied; a save of the group store failed too.
C16_Witness ==
    /\ \E t \in Turns :
          /\ turns[t].pc = "done"
          /\ turns[t].logged = 4
          /\ turns[t].memory.facts["name"] = "Sam"
          /\ Len(turns[t].scheduled) = 1
          /\ turns[t].reply # Null
          /\ disk.users[turns[t].userId] = NoFile
    /\ \E g \in Groups : disk.groups[g] = Truncated

\* The files of user u.
FilesOf(d, u) == <<d.users[u], d.bak[u]>>

\* C17: a step of a turn changes the files of no user but the turn's sender,
\* and no group file.
C17_UsersIndependent ==
    [][turns' # turns =>
         /\ \A u \in Users :
               FilesOf(disk', u) # FilesOf(disk, u) =>
                  \E t \in Turns : turns'[t] # turns[t] /\ turns'[t].userId = u
         /\ disk'.groups = disk.groups]_vars

\* Turns of two users overlapped, one of them cleaning up after a damaged
\* file, and both users have their record.
C17_Witness ==
    \E a \in Turns, b \in Turns :
        /\ turns[a].pc = "returned" /\ ~turns[a].ignored
        /\ AfterFinalSave(b)
        /\ turns[a].userId # turns[b].userId
        /\ a \notin turns[b].before
        /\ \A u \in Users : UserRecordOf(disk, u) # Null
        /\ \E u \in Users : disk.bak[u] # NoFile

\* The cleaned text: the generated text without its directives, trimmed.
CleanedText(raw) == Trim(SelectSeq(raw, LAMBDA x : ~IsTag(x)))
OnlyDirectives(raw) == raw # <<>> /\ \A i \in 1..Len(raw) : IsTag(raw[i]) /\ raw[i].ok

\* C18: a turn replies exactly when the cleaned text is not empty; a text
\* of well-formed directives only gets no reply, and its facts and reminders
\* take effect.
C18_ReplyIffNonEmpty ==
    \A t \in Turns : turns[t].pc = "done" =>
        /\ turns[t].reply # Null <=> CleanedText(turns[t].rawResponse) # <<>>
        /\ OnlyDirectives(turns[t].rawResponse) =>
              /\ turns[t].reply = Null
              /\ UserRecordOf(disk, turns[t].userId).facts =
                     ExpectedFacts(turns[t].loadedFacts, turns[t].rawResponse)
              /\ RemindersScheduled(t)

\* A message in a group or supergroup that neither mentions the bot nor
\* replies to it.
Unaddressed(m) ==
    m.chatType \in {"group", "supergroup"} /\ ~m.isMentioned /\ ~m.isReply

\* The handler of such a message has returned and has done nothing.
Ignored(turn) ==
    /\ turn.pc = "returned"
    /\ turn.ignored
    /\ turn.memory = Null
    /\ turn.targetMemory = Null
    /\ turn.rawResponse = <<>>
    /\ turn.scheduled = <<>>
    /\ turn.reply = Null

\* C19: the handler of an unaddressed group message returns at once: no
\* file is read into a record, written or renamed, the name index is not
\* scanned, no text is generated, no reminder scheduled and no reply sent.
C19_UnaddressedIgnored ==
    /\ [][(msg' # NoMsg /\ Unaddressed(msg')) =>
             /\ disk' = disk
             /\ found' = found
             /\ timers' = timers
             /\ delivered' = delivered
             /\ running' = running
             /\ Ignored(turns'[msg'.turn])
             /\ \A s \in Turns \ {msg'.turn} : turns'[s] = turns[s]]_vars
    /\ [](\A t \in Turns : turns[t].ignored => Ignored(turns[t]))

\* An unaddressed group message of a user who has a record has just been
\* ignored while another turn waits for its text.
C19_Witness ==
    /\ Unaddressed(msg)
    /\ Ignored(turns[msg.turn])
    /\ UserRecordOf(disk, msg.from) # Null
    /\ \E t \in Turns : turns[t].pc = "awaiting"

\* The step in which turn t receives an addressed message whose sender has
\* a display name that differs from the username of the loaded record.
SyncStep(t) ==
    /\ turns[t].pc = "idle"
    /\ turns'[t].pc = "awaiting"
    /\ msg'.turn = t
    /\ msg'.username # NoName
    /\ loadUserMemory(disk, msg'.from).ret.username # msg'.username

\* The step in which turn t makes its final save.
FinalSaveStep(t) ==
    turns[t].pc = "appended2" /\ turns'[t].pc = "saved"

\* C20: when the sender's display name n differs from the loaded username,
\* the sender's file holds n when the turn starts to wait for the generated
\* text, so that a lookup of n can return the sender; the turn keeps n in
\* its copy, and the file holds n again after the turn's final save.
C20_UsernameSyncDurable ==
    [][\A t \in Turns :
         /\ SyncStep(t) =>
               /\ UserRecordOf(disk', msg'.from) # Null
               /\ UserRecordOf(disk', msg'.from).username = msg'.username
               /\ UserRecordOf(disk', msg'.from)
                      \in findUserByUsername(disk', msg'.username)
               /\ turns'[t].memory.username = msg'.username
         /\ (turns[t].memory # Null /\ turns'[t].memory # Null) =>
               turns'[t].memory.username = turns[t].memory.username
         /\ (FinalSaveStep(t) /\ turns[t].memory.username # NoName) =>
               /\ UserRecordOf(disk', turns[t].userId) # Null
               /\ UserRecordOf(disk', turns[t].userId).username
                      = turns[t].memory.username]_vars

\* The first turn created its sender's record with the display name and
\* waits for its text; the turn of another user, received meanwhile, has
\* looked that name up and found the first sender.
C20_Witness ==
    \E a \in Turns, b \in Turns :
        /\ a = 1
        /\ turns[a].pc = "awaiting" /\ turns[b].pc = "awaiting"
        /\ turns[a].userId # turns[b].userId
        /\ turns[a].memory.username = "Alex"
        /\ turns[b].userText = WhoIs("alex")
        /\ turns[b].targetMemory # Null
        /\ turns[b].targetMemory = UserRecordOf(disk, turns[a].userId)

====
